---- MODULE Spec2Model ----
(***************************************************************************)
(* Pour-over coffee timer: the phase timer state machine of the App module *)
(* (state, loadSettings, handleSettingChange, startTimer, pauseTimer,      *)
(* stopTimer, tick, advancePhase) together with the host facilities it     *)
(* uses: the wall clock (Date.now), the interval registry (setInterval /   *)
(* clearInterval), localStorage and AudioManager.playTransition.           *)
(*                                                                         *)
(* Time.  Date.now() is measured in clock units, UnitsPerSec units to the  *)
(* second (the source has 1000).  state.secondsRemaining is a real number  *)
(* of seconds in the source; here it is held as a whole number of clock    *)
(* units, so the source value is secondsRemaining / UnitsPerSec.  Settings *)
(* and state.phaseDuration are whole seconds, as in the source.            *)
(***************************************************************************)
EXTENDS Integers, Sequences, FiniteSets, TLC

VARIABLES
    state,      \* the App's state object
    now,        \* Date.now(), in clock units
    timers,     \* ids of the intervals the host has scheduled (setInterval)
    storage,    \* localStorage item 'pourover-settings'
    pc,         \* "boot" before DOMContentLoaded has run init(), then "ready"
    last,       \* history: the entry point called last and the branch it took
    events,     \* history: the playTransition calls made by the last entry point
    pause,      \* history: the pause in progress (remaining time and time of pause)
    twin,       \* a second run of the same engine (two-run comparisons)
    twinEvents, \* history: the playTransition calls twin made in the last step
    sampled     \* history: the clock readings of the last tick of state and of twin

vars == <<state, now, timers, storage, pc, last, events, pause, twin, twinEvents, sampled>>

----------------------------------------------------------------------------
(* Bounds of the model. *)

UnitsPerSec == 1        \* clock units per second
MaxNow == 4             \* the clock is observed up to this reading
MaxGap == 2             \* largest clock advance between two events

(* Program constants. *)

MinDuration == 1
MaxDuration == 300
DefaultBloom == 40
DefaultPour == 5
DefaultWait == 10

NULL == -1              \* JavaScript null (intervalId, phaseStartTime, phaseDuration)

Phases == {"bloom", "pour", "wait"}

(* An optional number: <<>> is undefined / NaN, <<n>> is the number n. *)
None == <<>>
Some(n) == <<n>>

Max(a, b) == IF a >= b THEN a ELSE b
Min(a, b) == IF a <= b THEN a ELSE b

(* ToNumber(null) = 0: what arithmetic and comparison make of a null field. *)
ToNumber(x) == IF x = NULL THEN 0 ELSE x

(* n seconds in clock units (the source multiplies by 1000). *)
Secs(n) == n * UnitsPerSec

----------------------------------------------------------------------------
(* Settings *)

(* Variant of clamp that applies the upper limit only. *)
clamp_NoFloor(val, min, max) == IF val <= max THEN val ELSE max

clamp(val, min, max) == Max(min, Min(max, val))

(* v || d  for an optional number v: undefined, NaN and 0 are falsy. *)
OrDefault(v, d) == IF v = None \/ v[1] = 0 THEN d ELSE v[1]

(* parseInt(value) for the inputs of the model: an integer parses to itself,
   non-numeric text to NaN. *)
parseInt(value) == value

DefaultSettings == [bloom |-> DefaultBloom, pour |-> DefaultPour, wait |-> DefaultWait]

(* The contents of localStorage: no item, text JSON.parse rejects, the JSON
   text "null", or a JSON object whose fields are optional numbers. *)
Item(k, b, p, w) == [kind |-> k, bloom |-> b, pour |-> p, wait |-> w]
Absent == Item("absent", None, None, None)
Garbage == Item("garbage", None, None, None)
JsonNull == Item("null", None, None, None)
Json(b, p, w) == Item("json", b, p, w)

SavedInputs ==
    { Absent, Garbage, JsonNull,
      Json(None, None, None),
      Json(Some(1), Some(1), Some(1)),
      Json(Some(2), Some(1), None),
      Json(Some(0), Some(-3), Some(301)),
      Json(Some(301), Some(0), Some(-3)),
      Json(Some(-3), Some(301), Some(0)),
      Json(Some(1), Some(2), Some(1)) }

(* Values handed to handleSettingChange. *)
SettingInputs == { None, Some(-3), Some(0), Some(1), Some(301) }

(* JSON.stringify(state.settings) as saveSettings stores it. *)
saveSettings(settings) ==
    Json(Some(settings.bloom), Some(settings.pour), Some(settings.wait))

(* Variant of loadedSettings that applies the defaults without clamping. *)
loadedSettings_NoClamp(saved, settings) ==
    IF saved.kind = "json"
    THEN [bloom |-> OrDefault(saved.bloom, DefaultBloom),
          pour  |-> OrDefault(saved.pour, DefaultPour),
          wait  |-> OrDefault(saved.wait, DefaultWait)]
    ELSE settings

(* The settings loadSettings leaves in state.settings. *)
loadedSettings(saved, settings) ==
    IF saved.kind = "json"
    THEN [bloom |-> clamp(OrDefault(saved.bloom, DefaultBloom), MinDuration, MaxDuration),
          pour  |-> clamp(OrDefault(saved.pour, DefaultPour), MinDuration, MaxDuration),
          wait  |-> clamp(OrDefault(saved.wait, DefaultWait), MinDuration, MaxDuration)]
    ELSE settings

loadBranch(saved) ==
    CASE saved.kind = "absent" -> "absent"
      [] saved.kind = "json" -> "parsed"
      [] OTHER -> "error"

----------------------------------------------------------------------------
(* Host facilities *)

(* setInterval returns an id no scheduled interval has. *)
setInterval(tm) == CHOOSE id \in 1..(Cardinality(tm) + 1) : id \notin tm

(* clearInterval(id); clearInterval(null) clears nothing. *)
clearInterval(tm, id) == tm \ {id}

(* AudioManager.playTransition(from, to): the sound it plays. *)
playTransition(from, to) ==
    CASE from = "start" -> "startMelody"
      [] from = "bloom" /\ to = "pour" -> "waterDrop"
      [] from = "pour" /\ to = "wait" -> "woodKnock"
      [] from = "wait" /\ to = "pour" -> "softPing"
      [] OTHER -> "none"

(* One call of playTransition, as the events history records it. *)
Transition(from, to) == [from |-> from, to |-> to, sound |-> playTransition(from, to)]

----------------------------------------------------------------------------
(* Timer logic.  Each operator gives the outcome of one call: the state object
   (st), the host's intervals (tm), the playTransition calls made (ev) and the
   branch taken (br). *)

Outcome(s, tm, ev, br) == [st |-> s, tm |-> tm, ev |-> ev, br |-> br]

InitialState ==
    [settings |-> DefaultSettings,
     currentPhase |-> "bloom",
     secondsRemaining |-> Secs(DefaultBloom),
     isRunning |-> FALSE,
     isPaused |-> FALSE,
     intervalId |-> NULL,
     phaseStartTime |-> NULL,
     phaseDuration |-> NULL]

(* Variant of loadSettings that leaves secondsRemaining as constructed. *)
loadSettings_KeepsRemaining(s, saved) ==
    [s EXCEPT !.settings = loadedSettings(saved, s.settings)]

loadSettings(s, saved) ==
    LET settings == loadedSettings(saved, s.settings)
    IN  [s EXCEPT !.settings = settings,
                  !.secondsRemaining = Secs(settings.bloom)]

(* Variant of handleSettingChange that refreshes secondsRemaining in every
   state, not only when the timer is idle. *)
handleSettingChange_Always(s, phase, value) ==
    LET num == IF value = None \/ value[1] < MinDuration THEN MinDuration
               ELSE IF value[1] > MaxDuration THEN MaxDuration ELSE value[1]
        s1  == [s EXCEPT !.settings[phase] = num]
    IN  [s1 EXCEPT !.secondsRemaining = Secs(s1.settings[s1.currentPhase])]

(* Variant of handleSettingChange that also pushes a new duration of the active
   phase into the running countdown. *)
handleSettingChange_Live(s, phase, value) ==
    LET num == IF value = None \/ value[1] < MinDuration THEN MinDuration
               ELSE IF value[1] > MaxDuration THEN MaxDuration ELSE value[1]
        s1  == [s EXCEPT !.settings[phase] = num]
    IN  IF ~s1.isRunning
        THEN [s1 EXCEPT !.secondsRemaining = s1.settings[s1.currentPhase] * UnitsPerSec]
        ELSE IF phase = s1.currentPhase
        THEN [s1 EXCEPT !.phaseDuration = num]
        ELSE s1

handleSettingChange(s, phase, value) ==
    LET num == clamp(OrDefault(parseInt(value), 1), MinDuration, MaxDuration)
        s1  == [s EXCEPT !.settings[phase] = num]
    IN  IF ~s1.isRunning
        THEN [s1 EXCEPT !.secondsRemaining = Secs(s1.settings[s1.currentPhase])]
        ELSE s1

(* Variant of the phase order in which wait returns to bloom. *)
nextPhaseOf_WaitToBloom(phase) ==
    IF phase = "bloom" THEN "pour"
    ELSE IF phase = "pour" THEN "wait"
    ELSE "bloom"

nextPhaseOf(phase) ==
    IF phase = "bloom" THEN "pour"
    ELSE IF phase = "pour" THEN "wait"
    ELSE "pour"

(* Variant of advancePhase that makes no playTransition call. *)
advancePhase_Silent(s, t, tm) ==
    LET nextPhase == IF s.currentPhase = "pour" THEN "wait" ELSE "pour"
    IN  [st |-> [s EXCEPT !.currentPhase = nextPhase,
                          !.phaseDuration = s.settings[nextPhase],
                          !.secondsRemaining = s.settings[nextPhase] * UnitsPerSec,
                          !.phaseStartTime = t],
         tm |-> tm, ev |-> <<>>, br |-> "advance"]

(* Variant of advancePhase that starts the next phase at the instant the
   previous one ran out, not at the instant of the tick. *)
advancePhase_FromDeadline(s, t, tm) ==
    LET nextPhase == IF s.currentPhase = "pour" THEN "wait" ELSE "pour"
    IN  [st |-> [s EXCEPT !.currentPhase = nextPhase,
                          !.phaseDuration = s.settings[nextPhase],
                          !.secondsRemaining = s.settings[nextPhase] * UnitsPerSec,
                          !.phaseStartTime = s.phaseStartTime + s.phaseDuration * UnitsPerSec],
         tm |-> tm,
         ev |-> <<[from |-> s.currentPhase, to |-> nextPhase,
                   sound |-> IF s.currentPhase = "bloom" THEN "waterDrop"
                             ELSE IF s.currentPhase = "pour" THEN "woodKnock"
                             ELSE "softPing"]>>,
         br |-> "advance"]

(* Variant of advancePhase that leaves secondsRemaining as the tick computed
   it. *)
advancePhase_KeepsRemaining(s, t, tm) ==
    LET nextPhase == IF s.currentPhase = "pour" THEN "wait" ELSE "pour"
    IN  [st |-> [s EXCEPT !.currentPhase = nextPhase,
                          !.phaseDuration = s.settings[nextPhase],
                          !.phaseStartTime = t],
         tm |-> tm,
         ev |-> <<[from |-> s.currentPhase, to |-> nextPhase,
                   sound |-> IF s.currentPhase = "bloom" THEN "waterDrop"
                             ELSE IF s.currentPhase = "pour" THEN "woodKnock"
                             ELSE "softPing"]>>,
         br |-> "advance"]

advancePhase(s, t, tm) ==
    LET prevPhase == s.currentPhase
        nextPhase == nextPhaseOf(s.currentPhase)
    IN  Outcome([s EXCEPT !.currentPhase = nextPhase,
                          !.phaseDuration = s.settings[nextPhase],
                          !.secondsRemaining = Secs(s.settings[nextPhase]),
                          !.phaseStartTime = t],
                tm, <<Transition(prevPhase, nextPhase)>>, "advance")

(* Variant of tick that advances only when the remaining time is below zero. *)
tick_AdvanceBelowZero(s, t, tm) ==
    IF s.isPaused THEN [st |-> s, tm |-> tm, ev |-> <<>>, br |-> "paused"]
    ELSE LET elapsed == t - (IF s.phaseStartTime = NULL THEN 0 ELSE s.phaseStartTime)
             duration == IF s.phaseDuration = NULL THEN 0 ELSE s.phaseDuration
             left == duration * UnitsPerSec - elapsed
             s1 == [s EXCEPT !.secondsRemaining = IF left >= 0 THEN left ELSE 0]
         IN  IF s1.secondsRemaining < 0
             THEN advancePhase(s1, t, tm)
             ELSE [st |-> s1, tm |-> tm, ev |-> <<>>, br |-> "count"]

(* Variant of tick without the return on isPaused. *)
tick_NoPauseGuard(s, t, tm) ==
    LET elapsed == t - (IF s.phaseStartTime = NULL THEN 0 ELSE s.phaseStartTime)
        duration == IF s.phaseDuration = NULL THEN 0 ELSE s.phaseDuration
        left == duration * UnitsPerSec - elapsed
        s1 == [s EXCEPT !.secondsRemaining = IF left >= 0 THEN left ELSE 0]
    IN  IF s1.secondsRemaining <= 0
        THEN advancePhase(s1, t, tm)
        ELSE [st |-> s1, tm |-> tm, ev |-> <<>>, br |-> "count"]

tick(s, t, tm) ==
    IF s.isPaused THEN Outcome(s, tm, <<>>, "paused")
    ELSE LET elapsed == t - ToNumber(s.phaseStartTime)
             s1 == [s EXCEPT !.secondsRemaining =
                                Max(0, Secs(ToNumber(s.phaseDuration)) - elapsed)]
         IN  IF s1.secondsRemaining <= 0
             THEN advancePhase(s1, t, tm)
             ELSE Outcome(s1, tm, <<>>, "count")

(* Variant of startTimer that recomputes phaseStartTime on a fresh start only,
   not on resume. *)
startTimer_NoRebase(s, t, tm) ==
    IF s.isRunning /\ ~s.isPaused THEN [st |-> s, tm |-> tm, ev |-> <<>>, br |-> "noop"]
    ELSE LET fresh == ~s.isRunning
             s1 == IF fresh
                   THEN [s EXCEPT !.currentPhase = "bloom",
                                  !.secondsRemaining = s.settings.bloom * UnitsPerSec,
                                  !.phaseDuration = s.settings.bloom,
                                  !.isRunning = TRUE,
                                  !.isPaused = FALSE,
                                  !.phaseStartTime = t]
                   ELSE [s EXCEPT !.isPaused = FALSE]
             id == CHOOSE i \in 1..(Cardinality(tm) + 1) : i \notin tm
         IN  [st |-> [s1 EXCEPT !.intervalId = id],
              tm |-> tm \cup {id},
              ev |-> IF fresh
                     THEN <<[from |-> "start", to |-> "bloom", sound |-> "startMelody"]>>
                     ELSE <<>>,
              br |-> IF fresh THEN "fresh" ELSE "resume"]

(* Variant of startTimer whose fresh start leaves phaseDuration as it was. *)
startTimer_StaleDuration(s, t, tm) ==
    IF s.isRunning /\ ~s.isPaused THEN [st |-> s, tm |-> tm, ev |-> <<>>, br |-> "noop"]
    ELSE LET fresh == ~s.isRunning
             s1 == IF fresh
                   THEN [s EXCEPT !.currentPhase = "bloom",
                                  !.secondsRemaining = s.settings.bloom * UnitsPerSec,
                                  !.isRunning = TRUE,
                                  !.isPaused = FALSE]
                   ELSE [s EXCEPT !.isPaused = FALSE]
             pd == IF s1.phaseDuration = NULL THEN 0 ELSE s1.phaseDuration
             id == CHOOSE i \in 1..(Cardinality(tm) + 1) : i \notin tm
         IN  [st |-> [s1 EXCEPT !.phaseStartTime =
                                   t - (pd * UnitsPerSec - s1.secondsRemaining),
                                !.intervalId = id],
              tm |-> tm \cup {id},
              ev |-> IF fresh
                     THEN <<[from |-> "start", to |-> "bloom", sound |-> "startMelody"]>>
                     ELSE <<>>,
              br |-> IF fresh THEN "fresh" ELSE "resume"]

(* Variant of startTimer that sets phaseStartTime to the time of the call, on
   resume as on a fresh start. *)
startTimer_RestartsPhase(s, t, tm) ==
    IF s.isRunning /\ ~s.isPaused THEN [st |-> s, tm |-> tm, ev |-> <<>>, br |-> "noop"]
    ELSE LET fresh == ~s.isRunning
             s1 == IF fresh
                   THEN [s EXCEPT !.currentPhase = "bloom",
                                  !.secondsRemaining = s.settings.bloom * UnitsPerSec,
                                  !.phaseDuration = s.settings.bloom,
                                  !.isRunning = TRUE,
                                  !.isPaused = FALSE]
                   ELSE [s EXCEPT !.isPaused = FALSE]
             id == CHOOSE i \in 1..(Cardinality(tm) + 1) : i \notin tm
         IN  [st |-> [s1 EXCEPT !.phaseStartTime = t, !.intervalId = id],
              tm |-> tm \cup {id},
              ev |-> IF fresh
                     THEN <<[from |-> "start", to |-> "bloom", sound |-> "startMelody"]>>
                     ELSE <<>>,
              br |-> IF fresh THEN "fresh" ELSE "resume"]

startTimer(s, t, tm) ==
    IF s.isRunning /\ ~s.isPaused THEN Outcome(s, tm, <<>>, "noop")
    ELSE LET fresh == ~s.isRunning
             s1 == IF fresh
                   THEN [s EXCEPT !.currentPhase = "bloom",
                                  !.secondsRemaining = Secs(s.settings.bloom),
                                  !.phaseDuration = s.settings.bloom,
                                  !.isRunning = TRUE,
                                  !.isPaused = FALSE]
                   ELSE IF s.isPaused THEN [s EXCEPT !.isPaused = FALSE]
                   ELSE s
             id == setInterval(tm)
         IN  Outcome([s1 EXCEPT !.phaseStartTime =
                                   t - (Secs(ToNumber(s1.phaseDuration)) - s1.secondsRemaining),
                                !.intervalId = id],
                     tm \cup {id},
                     IF fresh THEN <<Transition("start", "bloom")>> ELSE <<>>,
                     IF fresh THEN "fresh" ELSE "resume")

(* Variant of pauseTimer without the guard on isRunning and isPaused. *)
pauseTimer_NoGuard(s, tm) ==
    [st |-> [s EXCEPT !.isPaused = TRUE, !.intervalId = NULL],
     tm |-> tm \ {s.intervalId}, ev |-> <<>>, br |-> "paused"]

(* Variant of pauseTimer that returns early only when already paused. *)
pauseTimer_IdleAllowed(s, tm) ==
    IF s.isPaused THEN [st |-> s, tm |-> tm, ev |-> <<>>, br |-> "noop"]
    ELSE [st |-> [s EXCEPT !.isPaused = TRUE, !.intervalId = NULL],
          tm |-> tm \ {s.intervalId}, ev |-> <<>>, br |-> "paused"]

pauseTimer(s, tm) ==
    IF ~s.isRunning \/ s.isPaused THEN Outcome(s, tm, <<>>, "noop")
    ELSE Outcome([s EXCEPT !.isPaused = TRUE, !.intervalId = NULL],
                 clearInterval(tm, s.intervalId), <<>>, "paused")

(* Variant of stopTimer that leaves isPaused as it was. *)
stopTimer_KeepsPaused(s, tm) ==
    [st |-> [s EXCEPT !.isRunning = FALSE,
                      !.intervalId = NULL,
                      !.currentPhase = "bloom",
                      !.secondsRemaining = s.settings.bloom * UnitsPerSec],
     tm |-> tm \ {s.intervalId}, ev |-> <<>>, br |-> "stop"]

(* Variant of stopTimer that forgets the interval id without clearing the
   interval. *)
stopTimer_LeavesInterval(s, tm) ==
    [st |-> [s EXCEPT !.isRunning = FALSE,
                      !.isPaused = FALSE,
                      !.intervalId = NULL,
                      !.currentPhase = "bloom",
                      !.secondsRemaining = s.settings.bloom * UnitsPerSec],
     tm |-> tm, ev |-> <<>>, br |-> "stop"]

stopTimer(s, tm) ==
    Outcome([s EXCEPT !.isRunning = FALSE,
                      !.isPaused = FALSE,
                      !.intervalId = NULL,
                      !.currentPhase = "bloom",
                      !.secondsRemaining = Secs(s.settings.bloom)],
            clearInterval(tm, s.intervalId), <<>>, "stop")

----------------------------------------------------------------------------
(* History of the pause in progress. *)

NoPause == [stage |-> "none", R |-> NULL, at |-> NULL]

Called(op, br) == [op |-> op, branch |-> br]

----------------------------------------------------------------------------
(* The application: one action per entry point. *)

Init ==
    /\ state = InitialState
    /\ now = 0
    /\ timers = {}
    /\ storage \in SavedInputs
    /\ pc = "boot"
    /\ last = Called("init", "init")
    /\ events = <<>>
    /\ pause = NoPause
    /\ twin = InitialState
    /\ twinEvents = <<>>
    /\ sampled = [a |-> NULL, b |-> NULL]

(* DOMContentLoaded: init() runs loadSettings and binds the buttons. *)
Load ==
    /\ pc = "boot"
    /\ state' = loadSettings(state, storage)
    /\ pc' = "ready"
    /\ last' = Called("load", loadBranch(storage))
    /\ events' = <<>>
    /\ UNCHANGED <<now, timers, storage, pause, twin, twinEvents, sampled>>

Start ==
    /\ pc = "ready"
    /\ LET r == startTimer(state, now, timers)
       IN  /\ state' = r.st
           /\ timers' = r.tm
           /\ events' = r.ev
           /\ last' = Called("start", r.br)
           /\ pause' = CASE r.br = "fresh" -> NoPause
                         [] r.br = "resume" -> [pause EXCEPT !.stage = "resumed"]
                         [] OTHER -> pause
    /\ UNCHANGED <<now, storage, pc, twin, twinEvents, sampled>>

Pause ==
    /\ pc = "ready"
    /\ LET r == pauseTimer(state, timers)
       IN  /\ state' = r.st
           /\ timers' = r.tm
           /\ events' = r.ev
           /\ last' = Called("pause", r.br)
           /\ pause' = IF r.br = "paused"
                       THEN [stage |-> "paused", R |-> state.secondsRemaining, at |-> now]
                       ELSE pause
    /\ UNCHANGED <<now, storage, pc, twin, twinEvents, sampled>>

Stop ==
    /\ pc = "ready"
    /\ LET r == stopTimer(state, timers)
       IN  /\ state' = r.st
           /\ timers' = r.tm
           /\ events' = r.ev
           /\ last' = Called("stop", r.br)
           /\ pause' = NoPause
    /\ UNCHANGED <<now, storage, pc, twin, twinEvents, sampled>>

(* The host runs the callback of a scheduled interval.  The history names an
   advance "overdue" when the tick came after the phase had already run out. *)
Tick ==
    /\ pc = "ready"
    /\ timers # {}
    /\ LET r == tick(state, now, timers)
           late == now - ToNumber(state.phaseStartTime)
                       > Secs(ToNumber(state.phaseDuration))
       IN  /\ state' = r.st
           /\ timers' = r.tm
           /\ events' = r.ev
           /\ last' = Called("tick", IF r.br = "advance" /\ late THEN "overdue" ELSE r.br)
    /\ UNCHANGED <<now, storage, pc, pause, twin, twinEvents, sampled>>

SetDuration ==
    /\ pc = "ready"
    /\ \E phase \in Phases, value \in SettingInputs :
          /\ state' = handleSettingChange(state, phase, value)
          /\ storage' = saveSettings(state'.settings)
          /\ last' = Called("set", IF state.isRunning THEN "running" ELSE "idle")
    /\ events' = <<>>
    /\ UNCHANGED <<now, timers, pc, pause, twin, twinEvents, sampled>>

(* Wall-clock time passes. *)
Clock ==
    /\ \E d \in 1..MaxGap :
          /\ now + d <= MaxNow
          /\ now' = now + d
    /\ last' = Called("clock", "clock")
    /\ events' = <<>>
    /\ twinEvents' = <<>>
    /\ pause' = IF pause.stage = "resumed" THEN NoPause ELSE pause
    /\ UNCHANGED <<state, timers, storage, pc, twin, sampled>>

Next == Load \/ Start \/ Pause \/ Stop \/ Tick \/ SetDuration \/ Clock

Spec == Init /\ [][Next]_vars

----------------------------------------------------------------------------
(* Two runs of the engine under one clock.  Both runs make a fresh start at
   the same instant with the same settings; afterwards the host runs the
   polling callback of each at instants of its own choosing. *)

MaxJitterDuration == 2      \* the two runs use durations 1..MaxJitterDuration

JitterInit ==
    \E b, p, w \in 1..MaxJitterDuration :
        LET item == Json(Some(b), Some(p), Some(w))
            r == startTimer(loadSettings(InitialState, item), 0, {})
        IN  /\ state = r.st
            /\ twin = r.st
            /\ twinEvents = r.ev
            /\ timers = r.tm
            /\ events = r.ev
            /\ last = Called("start", r.br)
            /\ storage = item
    /\ now = 0
    /\ pc = "ready"
    /\ pause = NoPause
    /\ sampled = [a |-> NULL, b |-> NULL]

JitterTick ==
    /\ state.intervalId # NULL
    /\ LET r == tick(state, now, timers)
       IN  /\ state' = r.st
           /\ events' = r.ev
           /\ last' = Called("tick", r.br)
    /\ twinEvents' = <<>>
    /\ sampled' = [sampled EXCEPT !.a = now]
    /\ UNCHANGED <<now, timers, storage, pc, pause, twin>>

JitterTickTwin ==
    /\ twin.intervalId # NULL
    /\ LET r == tick(twin, now, timers)
       IN  /\ twin' = r.st
           /\ twinEvents' = r.ev
           /\ last' = Called("tick", r.br)
    /\ events' = <<>>
    /\ sampled' = [sampled EXCEPT !.b = now]
    /\ UNCHANGED <<state, now, timers, storage, pc, pause>>

JitterNext == JitterTick \/ JitterTickTwin \/ Clock

SpecJitter == JitterInit /\ [][JitterNext]_vars

----------------------------------------------------------------------------
(* The engine beside a variant of it that leaves the polling callback running
   across a pause and relies on the isPaused test in tick.  state is the code's
   engine, twin the variant; both receive every call, and the host runs the
   callback of each whenever that engine has an interval scheduled.  twin's
   interval is scheduled exactly while twin.intervalId is not null. *)

(* pause() of the variant: as pauseTimer, the interval left as it is. *)
gatedPause(s) ==
    LET r == pauseTimer(s, {})
    IN  [r EXCEPT !.st.intervalId = s.intervalId]

(* start() of the variant: as startTimer, but a resume schedules no second
   interval. *)
gatedStart(s, t) ==
    LET r == startTimer(s, t, {})
    IN  IF r.br = "resume" THEN [r EXCEPT !.st.intervalId = s.intervalId] ELSE r

GatedLoad ==
    /\ pc = "boot"
    /\ state' = loadSettings(state, storage)
    /\ twin' = loadSettings(twin, storage)
    /\ pc' = "ready"
    /\ last' = Called("load", loadBranch(storage))
    /\ events' = <<>>
    /\ twinEvents' = <<>>
    /\ UNCHANGED <<now, timers, storage, pause, sampled>>

GatedStart ==
    /\ pc = "ready"
    /\ LET r == startTimer(state, now, timers)
           g == gatedStart(twin, now)
       IN  /\ state' = r.st
           /\ timers' = r.tm
           /\ events' = r.ev
           /\ twin' = g.st
           /\ twinEvents' = g.ev
           /\ last' = Called("start", r.br)
           /\ pause' = CASE r.br = "fresh" -> NoPause
                         [] r.br = "resume" -> [pause EXCEPT !.stage = "resumed"]
                         [] OTHER -> pause
    /\ UNCHANGED <<now, storage, pc, sampled>>

GatedPause ==
    /\ pc = "ready"
    /\ LET r == pauseTimer(state, timers)
           g == gatedPause(twin)
       IN  /\ state' = r.st
           /\ timers' = r.tm
           /\ events' = r.ev
           /\ twin' = g.st
           /\ twinEvents' = g.ev
           /\ last' = Called("pause", r.br)
           /\ pause' = IF r.br = "paused"
                       THEN [stage |-> "paused", R |-> state.secondsRemaining, at |-> now]
                       ELSE pause
    /\ UNCHANGED <<now, storage, pc, sampled>>

GatedStop ==
    /\ pc = "ready"
    /\ LET r == stopTimer(state, timers)
           g == stopTimer(twin, {})
       IN  /\ state' = r.st
           /\ timers' = r.tm
           /\ events' = r.ev
           /\ twin' = g.st
           /\ twinEvents' = g.ev
           /\ last' = Called("stop", r.br)
           /\ pause' = NoPause
    /\ UNCHANGED <<now, storage, pc, sampled>>

(* The host runs the polling callbacks that are scheduled: the code's engine
   has one while it counts down, the variant also while it is paused. *)
GatedTick ==
    /\ pc = "ready"
    /\ timers # {} \/ twin.intervalId # NULL
    /\ LET r == IF timers # {} THEN tick(state, now, timers)
                ELSE Outcome(state, timers, <<>>, "unscheduled")
           g == IF twin.intervalId # NULL THEN tick(twin, now, {})
                ELSE Outcome(twin, {}, <<>>, "unscheduled")
       IN  /\ state' = r.st
           /\ timers' = r.tm
           /\ events' = r.ev
           /\ twin' = g.st
           /\ twinEvents' = g.ev
           /\ last' = Called("tick", r.br)
    /\ UNCHANGED <<now, storage, pc, pause, sampled>>

GatedSetDuration ==
    /\ pc = "ready"
    /\ \E phase \in Phases, value \in SettingInputs :
          /\ state' = handleSettingChange(state, phase, value)
          /\ twin' = handleSettingChange(twin, phase, value)
          /\ storage' = saveSettings(state'.settings)
          /\ last' = Called("set", IF state.isRunning THEN "running" ELSE "idle")
    /\ events' = <<>>
    /\ twinEvents' = <<>>
    /\ UNCHANGED <<now, timers, pc, pause, sampled>>

GatedNext ==
    \/ GatedLoad \/ GatedStart \/ GatedPause \/ GatedStop
    \/ GatedTick \/ GatedSetDuration \/ Clock

SpecGated == Init /\ [][GatedNext]_vars

----------------------------------------------------------------------------
(* A run that is started and then neither paused nor stopped, followed for
   ever.  The engine reads the clock only as Date.now() - phaseStartTime and
   sets phaseStartTime from Date.now(), so the clock is kept relative to the
   start of the running phase: when a tick starts a phase, now and
   phaseStartTime are both moved back by phaseStartTime.  The host lets the
   clock run on while the phase has time left, and at most MaxGap - 1 units
   beyond; it runs the polling callback again and again (weak fairness), and
   time keeps passing (weak fairness). *)

MaxLiveDuration == 2        \* the run uses durations 1..MaxLiveDuration

LiveInit ==
    \E b, p, w \in 1..MaxLiveDuration :
        LET item == Json(Some(b), Some(p), Some(w))
            r == startTimer(loadSettings(InitialState, item), 0, {})
        IN  /\ state = r.st
            /\ timers = r.tm
            /\ events = r.ev
            /\ last = Called("start", r.br)
            /\ storage = item
    /\ now = 0
    /\ pc = "ready"
    /\ pause = NoPause
    /\ twin = InitialState
    /\ twinEvents = <<>>
    /\ sampled = [a |-> NULL, b |-> NULL]

LiveTick ==
    /\ timers # {}
    /\ LET r == tick(state, now, timers)
           origin == r.st.phaseStartTime
       IN  /\ state' = [r.st EXCEPT !.phaseStartTime = r.st.phaseStartTime - origin]
           /\ now' = now - origin
           /\ timers' = r.tm
           /\ events' = r.ev
           /\ last' = Called("tick", r.br)
    /\ UNCHANGED <<storage, pc, pause, twin, twinEvents, sampled>>

LiveClock ==
    /\ now - state.phaseStartTime < Secs(state.phaseDuration)
    /\ \E d \in 1..MaxGap : now' = now + d
    /\ last' = Called("clock", "clock")
    /\ events' = <<>>
    /\ UNCHANGED <<state, timers, storage, pc, pause, twin, twinEvents, sampled>>

LiveNext == LiveTick \/ LiveClock

SpecLive ==
    /\ LiveInit
    /\ [][LiveNext]_vars
    /\ WF_vars(LiveTick)
    /\ WF_vars(LiveClock)

----------------------------------------------------------------------------
(* Properties *)

PhaseEdges == { <<"bloom", "pour">>, <<"pour", "wait">>, <<"wait", "pour">> }

(* C1: currentPhase changes only by a tick, along bloom->pour, pour->wait or
   wait->pour, or by stop(), which returns it to bloom; so once bloom has been
   left it is not entered again until stop() is called. *)
C1_PhaseOrder ==
    [][ state'.currentPhase # state.currentPhase =>
          \/ /\ last'.op = "tick"
             /\ <<state.currentPhase, state'.currentPhase>> \in PhaseEdges
          \/ /\ last'.op = "stop"
             /\ state'.currentPhase = "bloom" ]_vars

(* The wait->pour edge has been taken. *)
C1_Witness ==
    /\ last.op = "tick"
    /\ state.currentPhase = "pour"
    /\ events = <<Transition("wait", "pour")>>

(* C2: after stop(), whatever the state it was called in, currentPhase = bloom,
   secondsRemaining = settings.bloom, isRunning = isPaused = false; and a second
   stop() right after the first changes no state variable. *)
C2_StopResets ==
    /\ [](last.op = "stop" =>
            /\ state.currentPhase = "bloom"
            /\ state.secondsRemaining = Secs(state.settings.bloom)
            /\ ~state.isRunning
            /\ ~state.isPaused)
    /\ [][ (last.op = "stop" /\ last'.op = "stop") =>
             (state' = state /\ timers' = timers /\ storage' = storage) ]_vars

(* stop() has been called after a phase other than the stored bloom ran. *)
C2_Witness ==
    /\ last.op = "stop"
    /\ state.phaseStartTime # NULL
    /\ state.phaseStartTime > 0
    /\ state.phaseDuration # state.settings.bloom

(* C3: from an accepted pause at secondsRemaining = R, through any delay and the
   resume, and through a tick at the instant of the resume, secondsRemaining
   stays R. *)
C3_PauseResumeKeepsRemaining ==
    pause.stage \in {"paused", "resumed"} =>
        /\ state.secondsRemaining = pause.R
        /\ (pause.stage = "resumed" => state.isRunning /\ ~state.isPaused)

(* A tick at the instant of a resume that came a positive delay after a pause
   taken part-way through a phase. *)
C3_Witness ==
    /\ pause.stage = "resumed"
    /\ last.op = "tick"
    /\ now > pause.at
    /\ pause.R < Secs(state.phaseDuration)

(* C4 as stated: 0 <= secondsRemaining <= phaseDuration in every reachable
   state, the Idle states included.  (A null phaseDuration, as in the initial
   state, is not held against the claim here: the bound is read only where
   phaseDuration is a number.) *)
C4_RemainingWithinDuration ==
    state.phaseDuration # NULL =>
        /\ 0 <= state.secondsRemaining
        /\ state.secondsRemaining <= Secs(state.phaseDuration)

(* C4 amended: 0 <= secondsRemaining <= phaseDuration in every reachable state
   in which the timer is Running or Paused. *)
C4_RemainingWithinDurationWhileRunning ==
    state.isRunning =>
        /\ state.phaseDuration # NULL
        /\ 0 <= state.secondsRemaining
        /\ state.secondsRemaining <= Secs(state.phaseDuration)

(* A running phase part-way through, its stored duration changed meanwhile. *)
C4_Witness ==
    /\ state.isRunning
    /\ state.secondsRemaining < Secs(state.phaseDuration)
    /\ state.settings[state.currentPhase] # state.phaseDuration

(* C5: two runs started at the same instant with the same settings, each having
   taken its last tick at the same clock reading, agree on secondsRemaining and
   currentPhase, however their earlier ticks were spaced. *)
C5_JitterIndependent ==
    (sampled.a = now /\ sampled.b = now) =>
        /\ state.secondsRemaining = twin.secondsRemaining
        /\ state.currentPhase = twin.currentPhase

(* C6: a tick that changes the phase makes exactly one playTransition call,
   (previous phase, new phase); a fresh start makes exactly one, (start, bloom);
   resume, a start while running, pause, stop, a setting change, loading and a
   tick that keeps the phase make none. *)
C6_OneEventPerBoundary ==
    [][ /\ (last'.op = "tick" /\ state'.currentPhase # state.currentPhase) =>
              /\ Len(events') = 1
              /\ events'[1].from = state.currentPhase
              /\ events'[1].to = state'.currentPhase
        /\ (last'.op = "tick" /\ state'.currentPhase = state.currentPhase) =>
              events' = <<>>
        /\ (last'.op = "start" /\ ~state.isRunning) =>
              /\ Len(events') = 1
              /\ events'[1].from = "start"
              /\ events'[1].to = "bloom"
        /\ (last'.op = "start" /\ state.isRunning) => events' = <<>>
        /\ last'.op \in {"pause", "stop", "set", "load"} => events' = <<>> ]_vars

(* The pour->wait boundary has been crossed and announced once. *)
C6_Witness ==
    /\ last.op = "tick"
    /\ state.currentPhase = "wait"
    /\ Len(events) = 1
    /\ events[1].from = "pour"
    /\ events[1].sound = "woodKnock"

(* clamp(v, 1, 300) of an optional integer, non-numeric input counting as 1. *)
ClampedInput(v) ==
    IF v = None THEN 1
    ELSE IF v[1] < 1 THEN 1
    ELSE IF v[1] > 300 THEN 300
    ELSE v[1]

(* C7: a step that is the setting change of phase p with input v leaves
   settings[p] = clamp(v, 1, 300), non-numeric v stored as 1, and leaves the
   other two durations as they were. *)
C7_SettingClamped ==
    [][ last'.op = "set" =>
          \A p \in Phases, v \in SettingInputs :
              state' = handleSettingChange(state, p, v) =>
                  /\ state'.settings[p] = ClampedInput(v)
                  /\ \A q \in Phases \ {p} :
                         state'.settings[q] = state.settings[q] ]_vars

(* A setting change has stored the upper limit and persisted it. *)
C7_Witness ==
    /\ last.op = "set"
    /\ \E p \in Phases : state.settings[p] = 300
    /\ storage = saveSettings(state.settings)

(* What C8 says a stored field f with default d loads as. *)
LoadedAsStated(f, d) ==
    IF f = None \/ f[1] <= 0 THEN d
    ELSE IF f[1] > 300 THEN 300
    ELSE f[1]

(* What a stored field f with default d loads as: a missing or zero field as
   the default, any other integer clamped to [1,300]. *)
LoadedAsAmended(f, d) ==
    IF f = None \/ f[1] = 0 THEN d
    ELSE IF f[1] < 1 THEN 1
    ELSE IF f[1] > 300 THEN 300
    ELSE f[1]

(* C8 as stated: after load each field that was missing, zero or negative holds
   its default (40, 5, 10), any other is clamped to [1,300], unparsable data
   leaves the three defaults, and all three settings are in [1,300]. *)
C8_LoadDefaultsNonPositive ==
    last.op = "load" =>
        /\ storage.kind = "json" =>
              /\ state.settings.bloom = LoadedAsStated(storage.bloom, 40)
              /\ state.settings.pour = LoadedAsStated(storage.pour, 5)
              /\ state.settings.wait = LoadedAsStated(storage.wait, 10)
        /\ storage.kind # "json" =>
              state.settings = [bloom |-> 40, pour |-> 5, wait |-> 10]
        /\ \A p \in Phases : state.settings[p] \in 1..300

(* C8 amended: after load each field that was missing or zero holds its default
   (40, 5, 10), any other integer field, a negative one included, is clamped to
   [1,300] (a negative field loads as 1), unparsable data leaves the three
   defaults, and all three settings are in [1,300]. *)
C8_LoadDefaultsMissingOrZero ==
    last.op = "load" =>
        /\ storage.kind = "json" =>
              /\ state.settings.bloom = LoadedAsAmended(storage.bloom, 40)
              /\ state.settings.pour = LoadedAsAmended(storage.pour, 5)
              /\ state.settings.wait = LoadedAsAmended(storage.wait, 10)
        /\ storage.kind # "json" =>
              state.settings = [bloom |-> 40, pour |-> 5, wait |-> 10]
        /\ \A p \in Phases : state.settings[p] \in 1..300

(* Loaded: a zero field, a negative field and a field above the limit. *)
C8_Witness ==
    /\ last.op = "load"
    /\ storage = Json(Some(0), Some(-3), Some(301))
    /\ state.settings = [bloom |-> 40, pour |-> 1, wait |-> 300]

(* The call changed nothing of the timer and made no playTransition call. *)
NoEffect == state' = state /\ timers' = timers /\ events' = <<>>

(* C9: start() while Running and not paused, pause() while Idle or while
   Paused, and stop() while Idle change no field of the state object, leave the
   scheduled polling callback as it was and emit no event. *)
C9_InapplicableIsNoOp ==
    [][ /\ (last'.op = "start" /\ state.isRunning /\ ~state.isPaused) => NoEffect
        /\ (last'.op = "pause" /\ ~state.isRunning) => NoEffect
        /\ (last'.op = "pause" /\ state.isPaused) => NoEffect
        /\ (last'.op = "stop" /\ ~state.isRunning) => NoEffect ]_vars

(* start() was called while a phase was running, part-way through. *)
C9_Witness ==
    /\ last = Called("start", "noop")
    /\ state.isRunning
    /\ ~state.isPaused
    /\ state.secondsRemaining < Secs(state.phaseDuration)

(* C10: start() while Idle begins a fresh sequence: currentPhase = bloom,
   phaseDuration = secondsRemaining = settings.bloom, isRunning, not isPaused,
   phaseStartTime = now; a tick at that instant keeps currentPhase = bloom and
   secondsRemaining = settings.bloom. *)
C10_FreshStart ==
    [][ /\ (last'.op = "start" /\ ~state.isRunning) =>
              /\ state'.currentPhase = "bloom"
              /\ state'.phaseDuration = state.settings.bloom
              /\ state'.secondsRemaining = Secs(state.settings.bloom)
              /\ state'.isRunning
              /\ ~state'.isPaused
              /\ state'.phaseStartTime = now
              /\ state'.settings = state.settings
        /\ (last = Called("start", "fresh") /\ last'.op = "tick") =>
              /\ state'.currentPhase = "bloom"
              /\ state'.secondsRemaining = Secs(state'.settings.bloom) ]_vars

(* A tick at the instant of a fresh start, made after time has passed on the
   clock. *)
C10_Witness ==
    /\ last = Called("tick", "count")
    /\ state.currentPhase = "bloom"
    /\ state.phaseStartTime = now
    /\ now > 0
    /\ state.secondsRemaining = Secs(state.settings.bloom)

(* C11: a setting change while Running or Paused leaves phaseDuration,
   secondsRemaining, currentPhase and phaseStartTime as they were; the stored
   duration is taken up when the phase next starts (the advance into it, or the
   fresh start for bloom); a setting change while Idle sets secondsRemaining to
   the stored duration of the current (idle) phase at once. *)
C11_SettingTakesEffectAtPhaseStart ==
    [][ /\ (last'.op = "set" /\ state.isRunning) =>
              /\ state'.phaseDuration = state.phaseDuration
              /\ state'.secondsRemaining = state.secondsRemaining
              /\ state'.currentPhase = state.currentPhase
              /\ state'.phaseStartTime = state.phaseStartTime
        /\ (last'.op = "set" /\ ~state.isRunning) =>
              state'.secondsRemaining = Secs(state'.settings[state'.currentPhase])
        /\ (last'.op = "tick" /\ state'.currentPhase # state.currentPhase) =>
              /\ state'.phaseDuration = state.settings[state'.currentPhase]
              /\ state'.secondsRemaining = Secs(state.settings[state'.currentPhase])
        /\ (last'.op = "start" /\ ~state.isRunning) =>
              state'.phaseDuration = state.settings.bloom ]_vars

(* The duration of the active phase was changed while it was counting down. *)
C11_Witness ==
    /\ last = Called("set", "running")
    /\ state.isRunning
    /\ state.settings[state.currentPhase] # state.phaseDuration
    /\ 0 < state.secondsRemaining
    /\ state.secondsRemaining < Secs(state.phaseDuration)

(* C12: a tick of the running timer that reads elapsed >= phaseDuration, by
   whatever margin, makes one advance: one playTransition call, currentPhase =
   the next phase, phaseDuration = settings[next], secondsRemaining =
   phaseDuration, phaseStartTime = the time of the tick; a tick that reads
   elapsed < phaseDuration makes none and sets secondsRemaining =
   phaseDuration - elapsed. *)
C12_TickAdvancesOnce ==
    [][ (last'.op = "tick" /\ ~state.isPaused) =>
          LET elapsed == now - state.phaseStartTime
          IN  IF elapsed >= Secs(state.phaseDuration)
              THEN /\ <<state.currentPhase, state'.currentPhase>> \in PhaseEdges
                   /\ state'.phaseDuration = state.settings[state'.currentPhase]
                   /\ state'.secondsRemaining = Secs(state'.phaseDuration)
                   /\ state'.phaseStartTime = now
                   /\ Len(events') = 1
                   /\ events'[1].from = state.currentPhase
                   /\ events'[1].to = state'.currentPhase
              ELSE /\ state'.currentPhase = state.currentPhase
                   /\ state'.phaseDuration = state.phaseDuration
                   /\ state'.phaseStartTime = state.phaseStartTime
                   /\ state'.secondsRemaining = Secs(state.phaseDuration) - elapsed
                   /\ events' = <<>> ]_vars

(* A tick that came after the phase had run out has advanced it. *)
C12_Witness ==
    /\ last = Called("tick", "overdue")
    /\ state.phaseStartTime = now
    /\ state.secondsRemaining = Secs(state.phaseDuration)
    /\ Len(events) = 1

(* C13: while the timer is Paused, secondsRemaining, currentPhase and
   phaseDuration stay as they are under every step other than start() and
   stop(), whatever the clock reads, and a tick run at any such moment changes
   nothing and emits nothing. *)
C13_FrozenWhilePaused ==
    /\ [](state.isPaused =>
            /\ tick(state, now, timers).st = state
            /\ tick(state, now, timers).ev = <<>>)
    /\ [][ (state.isPaused /\ last'.op \notin {"start", "stop"}) =>
             /\ state'.secondsRemaining = state.secondsRemaining
             /\ state'.currentPhase = state.currentPhase
             /\ state'.phaseDuration = state.phaseDuration
             /\ state'.isPaused ]_vars

(* Paused part-way through a phase, and the clock has since passed the instant
   at which the phase would have run out. *)
C13_Witness ==
    /\ state.isPaused
    /\ pause.stage = "paused"
    /\ last.op = "clock"
    /\ state.secondsRemaining = pause.R
    /\ now - state.phaseStartTime > Secs(state.phaseDuration)

(* What a user of the engine observes of it. *)
Observable(s) ==
    [currentPhase |-> s.currentPhase,
     secondsRemaining |-> s.secondsRemaining,
     isRunning |-> s.isRunning,
     isPaused |-> s.isPaused]

(* C14: under the same calls and the same clock, the engine that cancels the
   polling callback on pause and the engine that leaves it running agree, after
   every step, on currentPhase, secondsRemaining, isRunning and isPaused and on
   the playTransition calls the step made. *)
C14_CancelAndGateAgree ==
    /\ Observable(state) = Observable(twin)
    /\ events = twinEvents

(* The variant's callback has run while paused, after the clock had passed the
   instant at which the paused phase would have run out. *)
C14_Witness ==
    /\ last = Called("tick", "unscheduled")
    /\ state.isPaused
    /\ timers = {}
    /\ twin.intervalId # NULL
    /\ now - twin.phaseStartTime > Secs(twin.phaseDuration)

(* C15: within one phase of a run (no advance, no fresh start, no stop in the
   step) a tick, a pause or a resume leaves secondsRemaining no larger than it
   was, and never negative. *)
C15_RemainingNeverIncreases ==
    [][ ( /\ last'.op \in {"tick", "pause", "start"}
          /\ state.isRunning
          /\ state'.isRunning
          /\ state'.currentPhase = state.currentPhase
          /\ events' = <<>> ) =>
            /\ state'.secondsRemaining <= state.secondsRemaining
            /\ state'.secondsRemaining >= 0 ]_vars

(* A tick has counted a running phase down, two units or more below its
   duration and not yet to zero. *)
C15_Witness ==
    /\ last = Called("tick", "count")
    /\ state.isRunning
    /\ 0 < state.secondsRemaining
    /\ state.secondsRemaining <= Secs(state.phaseDuration) - 2
    /\ now - state.phaseStartTime = Secs(state.phaseDuration) - state.secondsRemaining

(* C16: in a run that stays Running and not paused, with time passing and the
   polling callback running again and again, whatever phase is current is
   eventually left, and pour and wait are each entered infinitely often. *)
C16_PhasesKeepAdvancing ==
    /\ \A p \in Phases : (state.currentPhase = p) ~> (state.currentPhase # p)
    /\ []<>(state.currentPhase = "pour" /\ last = Called("tick", "advance"))
    /\ []<>(state.currentPhase = "wait" /\ last = Called("tick", "advance"))

(* The run has gone round once: wait has been left for pour. *)
C16_Witness ==
    /\ state.isRunning
    /\ ~state.isPaused
    /\ state.currentPhase = "pour"
    /\ last = Called("tick", "advance")
    /\ events = <<Transition("wait", "pour")>>

(* C17: in every reachable state isPaused implies isRunning, so the timer is
   Idle, Running or Paused and never paused without running. *)
C17_PausedImpliesRunning ==
    state.isPaused => state.isRunning

(* Paused in the wait phase, by a pause that took effect. *)
C17_Witness ==
    /\ last = Called("pause", "paused")
    /\ state.isPaused
    /\ state.isRunning
    /\ state.currentPhase = "wait"

(* C18: a polling callback is scheduled exactly when the timer is Running and
   not paused, it is the one intervalId names, there is never more than one,
   and an interval is created only when none is scheduled. *)
C18_OneIntervalWhileRunning ==
    /\ [](/\ Cardinality(timers) <= 1
          /\ (timers # {}) <=> (state.isRunning /\ ~state.isPaused)
          /\ timers = IF state.intervalId = NULL THEN {} ELSE {state.intervalId})
    /\ [][ (timers' \ timers # {}) => timers = {} ]_vars

(* A resume has scheduled the callback again after a pause had cleared it. *)
C18_Witness ==
    /\ last = Called("start", "resume")
    /\ pause.stage = "resumed"
    /\ timers = {state.intervalId}
    /\ state.isRunning
    /\ ~state.isPaused

(* C19: once settings are loaded, every Idle state shows the bloom phase with
   secondsRemaining equal to the bloom setting; a setting change made while
   Idle that leaves the bloom setting alone leaves secondsRemaining alone. *)
C19_IdleShowsBloom ==
    /\ []( (pc = "ready" /\ ~state.isRunning) =>
              /\ state.currentPhase = "bloom"
              /\ state.secondsRemaining = Secs(state.settings.bloom) )
    /\ [][ ( /\ last'.op = "set"
             /\ pc = "ready"
             /\ ~state.isRunning
             /\ state'.settings.bloom = state.settings.bloom ) =>
               state'.secondsRemaining = state.secondsRemaining ]_vars

(* Idle again after a run, with the pour duration just set to the maximum and
   the bloom setting not the default. *)
C19_Witness ==
    /\ last = Called("set", "idle")
    /\ ~state.isRunning
    /\ state.phaseDuration # NULL
    /\ state.settings.pour = MaxDuration
    /\ state.settings.bloom # DefaultBloom
    /\ state.secondsRemaining = Secs(state.settings.bloom)

(* C20: secondsRemaining is strictly positive in every state between
   operations. *)
C20_RemainingPositive ==
    state.secondsRemaining > 0

(* A tick that came after the phase had run out computed 0 and started the
   next phase with its full duration. *)
C20_Witness ==
    /\ last = Called("tick", "overdue")
    /\ state.currentPhase = "wait"
    /\ state.secondsRemaining = Secs(state.settings.wait)
    /\ state.phaseStartTime = now

====
